---- MODULE Spec2Model ----
(***************************************************************************)
(* Model of the documentation rewriting scripts:                           *)
(*   scripts/replace-hints.mjs, scripts/replace-embeds.mjs,                *)
(*   scripts/remove-arcade-iframes.mjs and scripts/fix-images.mjs.         *)
(* A text is a sequence of one-character strings.  Every regular           *)
(* expression of the scripts is an operator that gives, for a text and a   *)
(* position in it, the end of the match the JavaScript engine finds there  *)
(* (0 when it finds none), following the engine's order of preference      *)
(* between greedy and lazy alternatives.  Positions are 1-based; a match   *)
(* [p, e) covers the characters p .. e-1.                                  *)
(***************************************************************************)
EXTENDS Integers, Sequences, FiniteSets, TLC

(* ------------------------------------------------------------------ *)
(* Characters and character classes                                    *)
(* ------------------------------------------------------------------ *)

LowerLetters ==
  {"a","b","c","d","e","f","g","h","i","j","k","l","m",
   "n","o","p","q","r","s","t","u","v","w","x","y","z"}

UpperLetters ==
  {"A","B","C","D","E","F","G","H","I","J","K","L","M",
   "N","O","P","Q","R","S","T","U","V","W","X","Y","Z"}

Digits == {"0","1","2","3","4","5","6","7","8","9"}

\* String.prototype.toLowerCase on one character
ToLower(c) ==
  CASE c = "A" -> "a" [] c = "B" -> "b" [] c = "C" -> "c" [] c = "D" -> "d"
    [] c = "E" -> "e" [] c = "F" -> "f" [] c = "G" -> "g" [] c = "H" -> "h"
    [] c = "I" -> "i" [] c = "J" -> "j" [] c = "K" -> "k" [] c = "L" -> "l"
    [] c = "M" -> "m" [] c = "N" -> "n" [] c = "O" -> "o" [] c = "P" -> "p"
    [] c = "Q" -> "q" [] c = "R" -> "r" [] c = "S" -> "s" [] c = "T" -> "t"
    [] c = "U" -> "u" [] c = "V" -> "v" [] c = "W" -> "w" [] c = "X" -> "x"
    [] c = "Y" -> "y" [] c = "Z" -> "z" [] OTHER -> c

LowerText(t) == [k \in 1..Len(t) |-> ToLower(t[k])]

\* the regular expression class \s, and the characters String.prototype.trim removes
IsSpace(c) == c \in {" ", "\t", "\n", "\r", "\f"}

\* the line terminators that ^ and $ of a multiline expression look at
IsLineTerm(c) == c \in {"\n", "\r"}

\* the regular expression class \w
IsWord(c) == c \in (LowerLetters \cup UpperLetters \cup Digits \cup {"_"})

\* the character at position p, "" outside the text
At(t, p) == IF p >= 1 /\ p <= Len(t) THEN t[p] ELSE ""

\* ^ of a multiline expression
BOL(t, p) == p = 1 \/ IsLineTerm(At(t, p - 1))

\* $ of a multiline expression
EOL(t, p) == p = Len(t) + 1 \/ IsLineTerm(At(t, p))

\* \b
WordBoundary(t, p) == IsWord(At(t, p - 1)) # IsWord(At(t, p))

\* a literal at position p, case-sensitive
LitAt(t, p, lit) ==
  /\ p >= 1
  /\ p + Len(lit) - 1 <= Len(t)
  /\ \A k \in 1..Len(lit) : t[p + k - 1] = lit[k]

\* a literal at position p under the i flag
LitAtI(t, p, lit) ==
  /\ p >= 1
  /\ p + Len(lit) - 1 <= Len(t)
  /\ \A k \in 1..Len(lit) : ToLower(t[p + k - 1]) = ToLower(lit[k])

\* end of the greedy run \s* that starts at p
SkipSpace(t, p) ==
  CHOOSE q \in p..(Len(t) + 1) :
    /\ \A k \in p..(q - 1) : IsSpace(t[k])
    /\ (q = Len(t) + 1 \/ ~IsSpace(t[q]))

\* end of the greedy run [^c]* that starts at p
SkipNot(t, p, c) ==
  CHOOSE q \in p..(Len(t) + 1) :
    /\ \A k \in p..(q - 1) : t[k] # c
    /\ (q = Len(t) + 1 \/ t[q] = c)

\* first position >= p where the literal starts, 0 when there is none
FindLit(t, p, lit) ==
  LET hits == {q \in p..(Len(t) + 1) : LitAt(t, q, lit)}
  IN IF hits = {} THEN 0 ELSE CHOOSE q \in hits : \A r \in hits : q <= r

FindLitI(t, p, lit) ==
  LET hits == {q \in p..(Len(t) + 1) : LitAtI(t, q, lit)}
  IN IF hits = {} THEN 0 ELSE CHOOSE q \in hits : \A r \in hits : q <= r

MinOf(S) == CHOOSE x \in S : \A y \in S : x <= y
MaxOf(S) == CHOOSE x \in S : \A y \in S : x >= y

\* t.substring(p-1, e-1): the characters p .. e-1
Cut(t, p, e) == SubSeq(t, p, e - 1)

\* String.prototype.trim
Trim(t) ==
  LET keep == {k \in 1..Len(t) : ~IsSpace(t[k])}
  IN IF keep = {} THEN <<>> ELSE SubSeq(t, MinOf(keep), MaxOf(keep))

\* String.prototype.includes
Includes(t, sub) == \E p \in 1..(Len(t) + 1) : LitAt(t, p, sub)

\* String.prototype.replaceAll(c, by) for a one-character pattern
RECURSIVE ReplaceChar(_, _, _)
ReplaceChar(t, c, by) ==
  IF t = <<>> THEN <<>>
  ELSE (IF Head(t) = c THEN by ELSE <<Head(t)>>) \o ReplaceChar(Tail(t), c, by)

SkipWord(t, p) ==
  CHOOSE q \in p..(Len(t) + 1) :
    /\ \A k \in p..(q - 1) : IsWord(t[k])
    /\ (q = Len(t) + 1 \/ ~IsWord(t[q]))

Quotes == {"\"", "'"}

(* ------------------------------------------------------------------ *)
(* Literals of the regular expressions and of the replacement texts    *)
(* ------------------------------------------------------------------ *)

K_open == <<"{","%">>
K_close == <<"%","}">>
K_hint == <<"h","i","n","t">>
K_endhint == <<"e","n","d","h","i","n","t">>
K_embed == <<"e","m","b","e","d">>
K_endembed == <<"e","n","d","e","m","b","e","d">>
K_url == <<"u","r","l">>
K_caption == <<"c","a","p","t","i","o","n">>
K_NoteOpen == <<"<","N","o","t","e",">">>
K_NoteClose == <<"<","/","N","o","t","e",">">>
K_iframeOpen == <<"<","i","f","r","a","m","e">>
K_iframeClose == <<"<","/","i","f","r","a","m","e",">">>
K_srcEq == <<"s","r","c","=">>
K_https == <<"h","t","t","p","s",":","/","/","a","p","p",".","a","r","c","a","d","e",".","s","o","f","t","w","a","r","e","/">>
K_http == <<"h","t","t","p",":","/","/","a","p","p",".","a","r","c","a","d","e",".","s","o","f","t","w","a","r","e","/">>
K_figureOpen == <<"<","f","i","g","u","r","e">>
K_figureClose == <<"<","/","f","i","g","u","r","e",">">>
K_figcaptionOpen == <<"<","f","i","g","c","a","p","t","i","o","n">>
K_figcaptionClose == <<"<","/","f","i","g","c","a","p","t","i","o","n",">">>
K_img == <<"<","i","m","g">>
K_alt == <<"a","l","t">>
K_amp == <<"&","a","m","p",";">>
K_quot == <<"&","q","u","o","t",";">>
K_lt == <<"&","l","t",";">>
K_gt == <<"&","g","t",";">>
K_EmbeddedContent == <<"E","m","b","e","d","d","e","d"," ","c","o","n","t","e","n","t">>
K_iframeClassSrc == <<"<","i","f","r","a","m","e"," ","c","l","a","s","s","N","a","m","e","=","\"","w","-","f","u","l","l"," ","a","s","p","e","c","t","-","v","i","d","e","o"," ","r","o","u","n","d","e","d","-","x","l","\""," ","s","r","c","=","\"">>
K_iframeTitle == <<"\""," ","t","i","t","l","e","=","\"">>
K_iframeRest == <<"\""," ","f","r","a","m","e","B","o","r","d","e","r","=","\"","0","\""," ","a","l","l","o","w","=","\"","a","c","c","e","l","e","r","o","m","e","t","e","r",";"," ","a","u","t","o","p","l","a","y",";"," ","c","l","i","p","b","o","a","r","d","-","w","r","i","t","e",";"," ","e","n","c","r","y","p","t","e","d","-","m","e","d","i","a",";"," ","g","y","r","o","s","c","o","p","e",";"," ","p","i","c","t","u","r","e","-","i","n","-","p","i","c","t","u","r","e","\""," ","a","l","l","o","w","F","u","l","l","S","c","r","e","e","n",">","<","/","i","f","r","a","m","e",">">>
K_altOpen == <<" ","a","l","t","=","\"">>
K_imgEnd == <<"\""," ","/",">">>

(* ------------------------------------------------------------------ *)
(* replace-hints.mjs                                                    *)
(* ------------------------------------------------------------------ *)

\* startTag = /^(\s*)\{\%\s*hint\b[^%]*\%\}/gm : end of the match at p, 0 when none
startTagEnd(t, p) ==
  IF ~BOL(t, p) THEN 0
  ELSE LET a == SkipSpace(t, p)
           b == SkipSpace(t, a + 2)
           c == SkipNot(t, b + 4, "%")
       IN IF /\ LitAt(t, a, K_open)
             /\ LitAt(t, b, K_hint)
             /\ WordBoundary(t, b + 4)
             /\ LitAt(t, c, K_close)
          THEN c + 2 ELSE 0

\* endTag = /^(\s*)\{\%\s*endhint\s*\%\}/gm : end of the match at p, 0 when none
endTagEnd(t, p) ==
  IF ~BOL(t, p) THEN 0
  ELSE LET a == SkipSpace(t, p)
           b == SkipSpace(t, a + 2)
           c == SkipSpace(t, b + 7)
       IN IF /\ LitAt(t, a, K_open)
             /\ LitAt(t, b, K_endhint)
             /\ LitAt(t, c, K_close)
          THEN c + 2 ELSE 0

\* the replacer callbacks of replace-hints.mjs: `${indent}<Note>` and `${indent}</Note>`
startTagReplacer(t, p) == Cut(t, p, SkipSpace(t, p)) \o K_NoteOpen
endTagReplacer(t, p) == Cut(t, p, SkipSpace(t, p)) \o K_NoteClose

(* ------------------------------------------------------------------ *)
(* String.prototype.replace with a global expression                    *)
(* ------------------------------------------------------------------ *)

\* where the engine finds the next match: the least start among S, 0 when S is empty
FirstOf(S) == IF S = {} THEN 0 ELSE MinOf(S)
\* the choice a greedy quantifier settles on: the greatest among S, 0 when S is empty
LastOf(S) == IF S = {} THEN 0 ELSE MaxOf(S)

\* the text up to a match, the callback's result r = [out, n] for it, and the
\* result of the scan after it
Spliced(before, r, rest) == [text |-> before \o r.out \o rest.text, n |-> r.n + rest.n]

\* the part of t from `from` when no match is left
Unmatched(t, from) == [text |-> Cut(t, from, Len(t) + 1), n |-> 0]

\* text.replace(startTag, ...) of replace-hints.mjs, from position `from`
RECURSIVE replaceStartTags(_, _)
replaceStartTagAt(t, from, p) ==
  IF p = 0 THEN Unmatched(t, from)
  ELSE Spliced(Cut(t, from, p), [out |-> startTagReplacer(t, p), n |-> 1],
               replaceStartTags(t, startTagEnd(t, p)))
replaceStartTags(t, from) ==
  replaceStartTagAt(t, from, FirstOf({p \in from..Len(t) : startTagEnd(t, p) # 0}))

\* text.replace(endTag, ...) of replace-hints.mjs
RECURSIVE replaceEndTags(_, _)
replaceEndTagAt(t, from, p) ==
  IF p = 0 THEN Unmatched(t, from)
  ELSE Spliced(Cut(t, from, p), [out |-> endTagReplacer(t, p), n |-> 1],
               replaceEndTags(t, endTagEnd(t, p)))
replaceEndTags(t, from) ==
  replaceEndTagAt(t, from, FirstOf({p \in from..Len(t) : endTagEnd(t, p) # 0}))

(* ------------------------------------------------------------------ *)
(* replace-embeds.mjs                                                   *)
(* ------------------------------------------------------------------ *)

\* htmlEscapeAttribute / htmlEntityEscape: four replaceAll calls in the source's order
htmlEscapeAttribute(value) ==
  ReplaceChar(ReplaceChar(ReplaceChar(ReplaceChar(value, "&", K_amp),
                                      "\"", K_quot), "<", K_lt), ">", K_gt)

\* /(\w+)\s*=\s*("([\s\S]*?)"|'([\s\S]*?)')/g : end of the match at p, 0 when none
attrPairEnd(t, p) ==
  IF ~IsWord(At(t, p)) THEN 0
  ELSE LET w == SkipWord(t, p)
           e == SkipSpace(t, w)
           v == SkipSpace(t, e + 1)
           close == FindLit(t, v + 1, <<At(t, v)>>)
       IN IF At(t, e) = "=" /\ At(t, v) \in Quotes /\ close # 0
          THEN close + 1 ELSE 0

attrPairKey(t, p) == Cut(t, p, SkipWord(t, p))

\* (m[3] ?? m[4] ?? '').trim()
attrPairVal(t, p) ==
  Trim(Cut(t, SkipSpace(t, SkipSpace(t, SkipWord(t, p)) + 1) + 1, attrPairEnd(t, p) - 1))

\* attrs[key] = val, for the two keys processContent reads
setAttr(attrs, key, val) ==
  IF key = K_url THEN [attrs EXCEPT !.url = val]
  ELSE IF key = K_caption THEN [attrs EXCEPT !.caption = val]
  ELSE attrs

\* the exec loop of parseEmbedAttrs from position `from`
RECURSIVE parseEmbedAttrsFrom(_, _, _)
parseEmbedAttrAt(t, p, attrs) ==
  IF p = 0 THEN attrs
  ELSE parseEmbedAttrsFrom(t, attrPairEnd(t, p),
                           setAttr(attrs, attrPairKey(t, p), attrPairVal(t, p)))
parseEmbedAttrsFrom(t, from, attrs) ==
  parseEmbedAttrAt(t, FirstOf({p \in from..Len(t) : attrPairEnd(t, p) # 0}), attrs)

\* attrs holds url and caption, the empty text standing for undefined
parseEmbedAttrs(attrText) ==
  parseEmbedAttrsFrom(attrText, 1, [url |-> <<>>, caption |-> <<>>])

buildIframe(url, titleFallback, indent) ==
  indent \o K_iframeClassSrc \o htmlEscapeAttribute(Trim(url)) \o K_iframeTitle
    \o htmlEscapeAttribute(IF Len(titleFallback) > 0 THEN titleFallback
                           ELSE K_EmbeddedContent)
    \o K_iframeRest

\* the start marker both expressions begin with, ^(\s*)\{\%\s*embed\b([^%]*)\%\} under
\* the flags m and i: the position after %}, 0 when it does not match at p
embedStartEnd(t, p) ==
  IF ~BOL(t, p) THEN 0
  ELSE LET a == SkipSpace(t, p)
           b == SkipSpace(t, a + 2)
           c == SkipNot(t, b + 5, "%")
       IN IF /\ LitAt(t, a, K_open)
             /\ LitAtI(t, b, K_embed)
             /\ WordBoundary(t, b + 5)
             /\ LitAt(t, c, K_close)
          THEN c + 2 ELSE 0

\* the groups indent and attrText of a start marker matched at p
embedIndent(t, p) == Cut(t, p, SkipSpace(t, p))
embedAttrText(t, p) ==
  Cut(t, SkipSpace(t, SkipSpace(t, p) + 2) + 5, embedStartEnd(t, p) - 2)

\* ^(\s*)\{\%\s*endembed\s*\%\} under the flags m and i: its end, 0 when none at k
endembedEnd(t, k) ==
  IF ~BOL(t, k) THEN 0
  ELSE LET a == SkipSpace(t, k)
           b == SkipSpace(t, a + 2)
           c == SkipSpace(t, b + 8)
       IN IF /\ LitAt(t, a, K_open)
             /\ LitAtI(t, b, K_endembed)
             /\ LitAt(t, c, K_close)
          THEN c + 2 ELSE 0

\* where the lazy group ([\s\S]*?) of blockRegex stops when the start marker ends at
\* h: the first line-anchored end marker from there, 0 when there is none
firstEndembed(t, h) ==
  IF h = 0 THEN 0 ELSE FirstOf({k \in h..Len(t) : endembedEnd(t, k) # 0})

blockInnerEnd(t, p) == firstEndembed(t, embedStartEnd(t, p))

\* blockRegex : end of the match at p, 0 when none
blockRegexEnd(t, p) == endembedEnd(t, blockInnerEnd(t, p))

\* caption of the blockRegex callback
blockCaption(attrs, inner) ==
  IF Len(Trim(attrs.caption)) > 0 THEN Trim(attrs.caption) ELSE Trim(inner)

\* the blockRegex callback on its groups: [out, n] with n the increment of blocks
blockCallback(full, indent, attrs, inner) ==
  IF attrs.url = <<>> THEN [out |-> full, n |-> 0]
  ELSE [out |-> buildIframe(attrs.url, blockCaption(attrs, inner), indent), n |-> 1]

blockReplacer(t, p) ==
  blockCallback(Cut(t, p, blockRegexEnd(t, p)), embedIndent(t, p),
                parseEmbedAttrs(embedAttrText(t, p)),
                Cut(t, embedStartEnd(t, p), blockInnerEnd(t, p)))

\* text.replace(blockRegex, ...)
RECURSIVE replaceBlocks(_, _)
replaceBlockAt(t, from, p) ==
  IF p = 0 THEN Unmatched(t, from)
  ELSE Spliced(Cut(t, from, p), blockReplacer(t, p),
               replaceBlocks(t, blockRegexEnd(t, p)))
replaceBlocks(t, from) ==
  replaceBlockAt(t, from, FirstOf({p \in from..Len(t) : blockRegexEnd(t, p) # 0}))

\* singleRegex = /^(\s*)\{\%\s*embed\b([^%]*)\%\}\s*$/gmi when the start marker ends
\* at h: the greedy \s* gives back characters until $ holds
singleTailEnd(t, h) ==
  IF h = 0 THEN 0 ELSE LastOf({e \in h..SkipSpace(t, h) : EOL(t, e)})

\* singleRegex : end of the match at p, 0 when none
singleRegexEnd(t, p) == singleTailEnd(t, embedStartEnd(t, p))

\* caption of the singleRegex callback
singleCaption(attrs) ==
  IF Len(Trim(attrs.caption)) > 0 THEN Trim(attrs.caption) ELSE <<>>

\* the singleRegex callback on its groups: [out, n] with n the increment of singles
singleCallback(full, indent, attrs) ==
  IF attrs.url = <<>> THEN [out |-> full, n |-> 0]
  ELSE [out |-> buildIframe(attrs.url, singleCaption(attrs), indent), n |-> 1]

singleReplacer(t, p) ==
  singleCallback(Cut(t, p, singleRegexEnd(t, p)), embedIndent(t, p),
                 parseEmbedAttrs(embedAttrText(t, p)))

\* text.replace(singleRegex, ...)
RECURSIVE replaceSingles(_, _)
replaceSingleAt(t, from, p) ==
  IF p = 0 THEN Unmatched(t, from)
  ELSE Spliced(Cut(t, from, p), singleReplacer(t, p),
               replaceSingles(t, singleRegexEnd(t, p)))
replaceSingles(t, from) ==
  replaceSingleAt(t, from, FirstOf({p \in from..Len(t) : singleRegexEnd(t, p) # 0}))

(* ------------------------------------------------------------------ *)
(* remove-arcade-iframes.mjs                                            *)
(* ------------------------------------------------------------------ *)

\* iframeRegex =
\*   /^(\s*)<iframe\b[^>]*\ssrc=["'](https?:\/\/app\.arcade\.software\/[^"]+)["'][\s\S]*?<\/iframe>\s*$/gmi
\* The engine tries, in this order: the longest [^>]*, the longest [^"]+, the shortest
\* [\s\S]*?, the longest final \s*.

\* <\/iframe>\s*$ with </iframe> at z: the end of the match, 0 when $ never holds
iframeTailEnd(t, z) ==
  IF z = 0 \/ ~LitAtI(t, z, K_iframeClose) THEN 0
  ELSE LastOf({e \in (z + 9)..SkipSpace(t, z + 9) : EOL(t, e)})

\* [\s\S]*?<\/iframe>\s*$ from position y: the end of the match, 0 when none
iframeBodyEnd(t, y) ==
  iframeTailEnd(t, FirstOf({z \in y..Len(t) : iframeTailEnd(t, z) # 0}))

\* the position after https?:\/\/app\.arcade\.software\/ when it starts at u, else 0
arcadePrefixEnd(t, u) ==
  IF LitAtI(t, u, K_https) THEN u + Len(K_https)
  ELSE IF LitAtI(t, u, K_http) THEN u + Len(K_http)
  ELSE 0

\* the quote that closes the group ([^"]+) when its part [^"]+ starts at x: the last
\* quote character up to the first double quote after which the rest matches
arcadeUrlClose(t, x) ==
  IF x = 0 THEN 0
  ELSE LastOf({y \in (x + 1)..SkipNot(t, x, "\"") :
                 At(t, y) \in Quotes /\ iframeBodyEnd(t, y + 1) # 0})

\* the same for a url that starts at u
arcadeUrlEnd(t, u) == arcadeUrlClose(t, arcadePrefixEnd(t, u))

\* the position of the \s before src= for a tag whose <iframe starts at a: the last one
\* in the run [^>]* from which the rest matches, 0 when none
arcadeSrcAt(t, a) ==
  LastOf({s \in (a + 7)..(SkipNot(t, a + 7, ">") - 1) :
            /\ IsSpace(t[s])
            /\ LitAtI(t, s + 1, K_srcEq)
            /\ At(t, s + 5) \in Quotes
            /\ arcadeUrlEnd(t, s + 6) # 0})

\* the rest of iframeRegex after [^>]* ended at s
iframeEndFromSrc(t, s) ==
  IF s = 0 THEN 0 ELSE iframeBodyEnd(t, arcadeUrlEnd(t, s + 6) + 1)

\* the rest of iframeRegex after ^(\s*) ended at a
iframeEndFromTag(t, a) ==
  IF LitAtI(t, a, K_iframeOpen) /\ WordBoundary(t, a + 7)
  THEN iframeEndFromSrc(t, arcadeSrcAt(t, a)) ELSE 0

\* iframeRegex : end of the match at p, 0 when none
iframeRegexEnd(t, p) ==
  IF ~BOL(t, p) THEN 0 ELSE iframeEndFromTag(t, SkipSpace(t, p))

\* the group url of a match whose url starts at u
iframeUrlFrom(t, u) == Cut(t, u, arcadeUrlEnd(t, u))

\* the group url of a match at p
iframeUrl(t, p) == iframeUrlFrom(t, arcadeSrcAt(t, SkipSpace(t, p)) + 6)

\* the replacer callback: `${indent}${url}`
iframeReplacer(t, p) == Cut(t, p, SkipSpace(t, p)) \o iframeUrl(t, p)

\* text.replace(iframeRegex, ...)
RECURSIVE replaceIframes(_, _)
replaceIframeAt(t, from, p) ==
  IF p = 0 THEN Unmatched(t, from)
  ELSE Spliced(Cut(t, from, p), [out |-> iframeReplacer(t, p), n |-> 1],
               replaceIframes(t, iframeRegexEnd(t, p)))
replaceIframes(t, from) ==
  replaceIframeAt(t, from, FirstOf({p \in from..Len(t) : iframeRegexEnd(t, p) # 0}))

(* ------------------------------------------------------------------ *)
(* fix-images.mjs                                                       *)
(* ------------------------------------------------------------------ *)

\* /<[^>]*>/g : end of the match at p, 0 when none
htmlTagEnd(t, p) ==
  IF At(t, p) = "<" /\ At(t, SkipNot(t, p + 1, ">")) = ">"
  THEN SkipNot(t, p + 1, ">") + 1 ELSE 0

\* /<img\b[\s\S]*?>/i and anyImgRegex : end of the match at p, 0 when none
imgRegexEnd(t, p) ==
  IF LitAtI(t, p, K_img) /\ WordBoundary(t, p + 4) /\ FindLit(t, p + 4, <<">">>) # 0
  THEN FindLit(t, p + 4, <<">">>) + 1 ELSE 0

\* tagMatch = imgTag.match(/^<img\b([\s\S]*?)\/?\s*>$/i): whether \/?\s*>$ matches the
\* rest of the tag from position x
tagTailAt(t, x) ==
  LET y == IF At(t, x) = "/" THEN x + 1 ELSE x
  IN y <= Len(t) /\ SkipSpace(t, y) = Len(t) /\ t[Len(t)] = ">"

\* /\salt\s*=\s*("[\s\S]*?"|'[\s\S]*?')/g : end of the match at p, 0 when none
altAttrEnd(t, p) ==
  IF ~(IsSpace(At(t, p)) /\ LitAt(t, p + 1, K_alt)) THEN 0
  ELSE LET e == SkipSpace(t, p + 4)
           v == SkipSpace(t, e + 1)
           close == FindLit(t, v + 1, <<At(t, v)>>)
       IN IF At(t, e) = "=" /\ At(t, v) \in Quotes /\ close # 0
          THEN close + 1 ELSE 0

\* raw.substring(1, raw.length - 1).trim() of the match at p
altAttrVal(t, p) ==
  Trim(Cut(t, SkipSpace(t, SkipSpace(t, p + 4) + 1) + 1, altAttrEnd(t, p) - 1))

\* if (val.length > 0) alts.push(val)
pushAlt(val, alts) == IF Len(val) > 0 THEN <<val>> \o alts ELSE alts

\* the exec loop that collects the non-empty alt values, from position `from`
RECURSIVE collectAlts(_, _)
collectAltAt(t, p) ==
  IF p = 0 THEN <<>>
  ELSE pushAlt(altAttrVal(t, p), collectAlts(t, altAttrEnd(t, p)))
collectAlts(t, from) ==
  collectAltAt(t, FirstOf({p \in from..Len(t) : altAttrEnd(t, p) # 0}))

\* /\s*\/\s*(?=>|$)/g : end of the match at p, 0 when none
straySlashEnd(t, p) ==
  LET a == SkipSpace(t, p)
      b == SkipSpace(t, a + 1)
  IN IF At(t, a) = "/" /\ (At(t, b) = ">" \/ b = Len(t) + 1) THEN b ELSE 0

\* /\s{2,}/g : end of the match at p, 0 when none
spaceRunEnd(t, p) ==
  IF p <= Len(t) /\ SkipSpace(t, p) >= p + 2 THEN SkipSpace(t, p) ELSE 0

\* figureRegex = /<figure\b[^>]*>([\s\S]*?)<\/figure>/g : where the group inner starts
\* for a match at p, 0 when the start tag does not match
figureInnerStart(t, p) ==
  IF /\ LitAt(t, p, K_figureOpen)
     /\ WordBoundary(t, p + 7)
     /\ At(t, SkipNot(t, p + 7, ">")) = ">"
  THEN SkipNot(t, p + 7, ">") + 1 ELSE 0

\* the position of the </figure> that ends the lazy group which starts at g
figureInnerEnd(t, g) == IF g = 0 THEN 0 ELSE FindLit(t, g, K_figureClose)

\* figureRegex : end of the match at p, 0 when none
figureRegexEnd(t, p) ==
  IF figureInnerEnd(t, figureInnerStart(t, p)) = 0 THEN 0
  ELSE figureInnerEnd(t, figureInnerStart(t, p)) + 9

\* captionRegex = /<figcaption\b[^>]*>([\s\S]*?)<\/figcaption>/i : where its group
\* starts for a match at p, 0 when none
captionInnerStart(t, p) ==
  IF /\ LitAtI(t, p, K_figcaptionOpen)
     /\ WordBoundary(t, p + 11)
     /\ At(t, SkipNot(t, p + 11, ">")) = ">"
     /\ FindLitI(t, SkipNot(t, p + 11, ">") + 1, K_figcaptionClose) # 0
  THEN SkipNot(t, p + 11, ">") + 1 ELSE 0

\* text.replace(/<[^>]*>/g, '')
RECURSIVE removeHtmlTags(_, _)
removeHtmlTagAt(t, from, p) ==
  IF p = 0 THEN Cut(t, from, Len(t) + 1)
  ELSE Cut(t, from, p) \o removeHtmlTags(t, htmlTagEnd(t, p))
removeHtmlTags(t, from) ==
  removeHtmlTagAt(t, from, FirstOf({p \in from..Len(t) : htmlTagEnd(t, p) # 0}))

stripHtmlTags(text) == removeHtmlTags(text, 1)

\* attrStringOriginal.replace(altAttrRegex, '')
RECURSIVE removeAltAttrs(_, _)
removeAltAttrAt(t, from, p) ==
  IF p = 0 THEN Cut(t, from, Len(t) + 1)
  ELSE Cut(t, from, p) \o removeAltAttrs(t, altAttrEnd(t, p))
removeAltAttrs(t, from) ==
  removeAltAttrAt(t, from, FirstOf({p \in from..Len(t) : altAttrEnd(t, p) # 0}))

\* attrString.replace(/\s*\/\s*(?=>|$)/g, '')
RECURSIVE removeStraySlashes(_, _)
removeStraySlashAt(t, from, p) ==
  IF p = 0 THEN Cut(t, from, Len(t) + 1)
  ELSE Cut(t, from, p) \o removeStraySlashes(t, straySlashEnd(t, p))
removeStraySlashes(t, from) ==
  removeStraySlashAt(t, from, FirstOf({p \in from..Len(t) : straySlashEnd(t, p) # 0}))

\* attrString.replace(/\s{2,}/g, ' ')
RECURSIVE collapseSpaces(_, _)
collapseSpaceAt(t, from, p) ==
  IF p = 0 THEN Cut(t, from, Len(t) + 1)
  ELSE Cut(t, from, p) \o <<" ">> \o collapseSpaces(t, spaceRunEnd(t, p))
collapseSpaces(t, from) ==
  collapseSpaceAt(t, from, FirstOf({p \in from..Len(t) : spaceRunEnd(t, p) # 0}))

\* attrStringOriginal: group 1 of tagMatch, or the two replace calls when tagMatch is null
imgAttrString(imgTag) ==
  LET xs == {x \in 5..Len(imgTag) : tagTailAt(imgTag, x)}
      isImg == LitAtI(imgTag, 1, K_img) /\ WordBoundary(imgTag, 5)
      noHead == IF isImg THEN Cut(imgTag, 5, Len(imgTag) + 1) ELSE imgTag
      gts == {g \in 1..Len(noHead) :
                noHead[g] = ">" /\ SkipSpace(noHead, g + 1) = Len(noHead) + 1}
  IN IF isImg /\ xs # {} THEN Cut(imgTag, 5, MinOf(xs))
     ELSE IF gts = {} THEN noHead
     ELSE Cut(noHead, 1, MinOf(gts))

\* a merge in which the fallback takes the place of the alt the tag had
mergeAltReplacing(chosenAlt, fb) == fb

\* the merge of the first collected alt with the trimmed, non-empty fallback
mergeAlt(chosenAlt, fb) ==
  IF chosenAlt = <<>> THEN fb
  ELSE IF ~Includes(LowerText(chosenAlt), LowerText(fb))
       THEN Trim(chosenAlt \o <<" ">> \o fb)
       ELSE chosenAlt

\* chosenAlt of normalizeImgTag
chooseAlt(alts, fallbackAlt) ==
  IF Len(Trim(fallbackAlt)) > 0
  THEN mergeAlt(IF Len(alts) > 0 THEN alts[1] ELSE <<>>, Trim(fallbackAlt))
  ELSE IF Len(alts) > 0 THEN alts[1] ELSE <<>>

\* attrString of normalizeImgTag: alt attributes and stray slashes removed, spacing normalized
cleanAttrString(attrStringOriginal) ==
  Trim(collapseSpaces(removeStraySlashes(removeAltAttrs(attrStringOriginal, 1), 1), 1))

\* the return statement of normalizeImgTag
emitImgTag(attrString, chosenAlt) ==
  K_img \o (IF Len(attrString) > 0 THEN <<" ">> \o attrString ELSE <<>>)
    \o K_altOpen \o htmlEscapeAttribute(chosenAlt) \o K_imgEnd

\* normalizeImgTag once attrStringOriginal is known
normalizeAttrs(attrStringOriginal, fallback) ==
  emitImgTag(cleanAttrString(attrStringOriginal),
             chooseAlt(collectAlts(attrStringOriginal, 1), fallback))

normalizeImgTag(tag, fallback) == normalizeAttrs(imgAttrString(tag), fallback)

\* caption of the figure callback when captionRegex matches inner at c (0: no match)
figureCaptionAt(inner, c) ==
  IF c = 0 THEN <<>>
  ELSE Trim(stripHtmlTags(Cut(inner, captionInnerStart(inner, c),
                              FindLitI(inner, captionInnerStart(inner, c),
                                       K_figcaptionClose))))

figureCaption(inner) ==
  figureCaptionAt(inner, FirstOf({c \in 1..Len(inner) : captionInnerStart(inner, c) # 0}))

\* the figure callback when imgRegex matches inner at i (0: no match)
figureCallbackAt(full, inner, i) ==
  IF i = 0 THEN [out |-> full, n |-> 0]
  ELSE [out |-> Cut(full, 1, SkipSpace(full, 1))
                  \o normalizeImgTag(Cut(inner, i, imgRegexEnd(inner, i)),
                                     figureCaption(inner)),
        n |-> 1]

\* the figure callback on its groups: [out, n], n the increment of figureUnwrapped
figureCallback(full, inner) ==
  figureCallbackAt(full, inner, FirstOf({i \in 1..Len(inner) : imgRegexEnd(inner, i) # 0}))

figureReplacer(t, p) ==
  figureCallback(Cut(t, p, figureRegexEnd(t, p)),
                 Cut(t, figureInnerStart(t, p), figureRegexEnd(t, p) - 9))

\* content.replace(figureRegex, ...)
RECURSIVE replaceFigures(_, _)
replaceFigureAt(t, from, p) ==
  IF p = 0 THEN Unmatched(t, from)
  ELSE Spliced(Cut(t, from, p), figureReplacer(t, p),
               replaceFigures(t, figureRegexEnd(t, p)))
replaceFigures(t, from) ==
  replaceFigureAt(t, from, FirstOf({p \in from..Len(t) : figureRegexEnd(t, p) # 0}))

\* the callback of the standalone pass on a tag and its normalized form
anyImgCallback(tag, norm) == [out |-> norm, n |-> IF norm # tag THEN 1 ELSE 0]

anyImgReplacer(t, p) ==
  anyImgCallback(Cut(t, p, imgRegexEnd(t, p)),
                 normalizeImgTag(Cut(t, p, imgRegexEnd(t, p)), <<>>))

\* content.replace(anyImgRegex, ...)
RECURSIVE replaceImgs(_, _)
replaceImgAt(t, from, p) ==
  IF p = 0 THEN Unmatched(t, from)
  ELSE Spliced(Cut(t, from, p), anyImgReplacer(t, p),
               replaceImgs(t, imgRegexEnd(t, p)))
replaceImgs(t, from) ==
  replaceImgAt(t, from, FirstOf({p \in from..Len(t) : imgRegexEnd(t, p) # 0}))

(* ------------------------------------------------------------------ *)
(* The four content transformers                                        *)
(* ------------------------------------------------------------------ *)

\* the return statement of processContent of replace-hints.mjs
hintsResult(s, e) ==
  [text |-> e.text, changed |-> s.n > 0 \/ e.n > 0, startCount |-> s.n, endCount |-> e.n]
hintsEndPass(s) == hintsResult(s, replaceEndTags(s.text, 1))
\* processContent of replace-hints.mjs
hintsProcessContent(text) == hintsEndPass(replaceStartTags(text, 1))

\* the return statement of processContent of replace-embeds.mjs
embedsResult(b, s) ==
  [text |-> s.text, changed |-> b.n > 0 \/ s.n > 0, blocks |-> b.n, singles |-> s.n]
embedsSinglePass(b) == embedsResult(b, replaceSingles(b.text, 1))
\* processContent of replace-embeds.mjs
embedsProcessContent(text) == embedsSinglePass(replaceBlocks(text, 1))

\* the return statement of processContent of remove-arcade-iframes.mjs
arcadeResult(r) == [text |-> r.text, changed |-> r.n > 0, replaced |-> r.n]
\* processContent of remove-arcade-iframes.mjs
arcadeProcessContent(text) == arcadeResult(replaceIframes(text, 1))

\* the return statement of processFileContent
imagesResult(f, i) ==
  [content |-> i.text, changed |-> f.n > 0 \/ i.n > 0,
   figureUnwrapped |-> f.n, imgsNormalized |-> i.n]
imagesImgPass(f) == imagesResult(f, replaceImgs(f.text, 1))
\* processFileContent of fix-images.mjs
processFileContent(content) == imagesImgPass(replaceFigures(content, 1))

\* the transformer of each script in one shape: the new text, the changed flag and
\* the two per-kind counts its main accumulates (the arcade script has one)
hintsShape(r) ==
  [text |-> r.text, changed |-> r.changed, n1 |-> r.startCount, n2 |-> r.endCount]
embedsShape(r) ==
  [text |-> r.text, changed |-> r.changed, n1 |-> r.blocks, n2 |-> r.singles]
arcadeShape(r) ==
  [text |-> r.text, changed |-> r.changed, n1 |-> r.replaced, n2 |-> 0]
imagesShape(r) ==
  [text |-> r.content, changed |-> r.changed,
   n1 |-> r.figureUnwrapped, n2 |-> r.imgsNormalized]

Transform(s, text) ==
  CASE s = "hints" -> hintsShape(hintsProcessContent(text))
    [] s = "embeds" -> embedsShape(embedsProcessContent(text))
    [] s = "arcade" -> arcadeShape(arcadeProcessContent(text))
    [] s = "images" -> imagesShape(processFileContent(text))

(* ------------------------------------------------------------------ *)
(* Bounds and the input texts                                           *)
(* ------------------------------------------------------------------ *)

\* lines of a text given to the hint transformer
MaxHintLines == 2
\* attributes of an image tag
MaxAttrs == 2
\* files the batch runner collected
NumFiles == 2

NL == <<"\n">>
Indents == {<<>>, <<" "," ">>}

RECURSIVE JoinLines(_)
JoinLines(ls) ==
  IF Len(ls) = 0 THEN <<>>
  ELSE IF Len(ls) = 1 THEN ls[1]
  ELSE ls[1] \o NL \o JoinLines(Tail(ls))

SeqsUpTo(S, n) == UNION {[1..k -> S] : k \in 0..n}

\* --- hints: lines that are a start marker, an end marker or plain text
HintStyles == {<<"i","n","f","o">>, <<"w","a","r","n","i","n","g">>, <<"5","0","%">>}
HintLineParts ==
  [kind : {"start"}, indent : Indents, style : HintStyles]
    \cup [kind : {"end", "text", "inline"}, indent : Indents, style : {<<>>}]

HintLine(l) ==
  CASE l.kind = "start" -> l.indent \o <<"{","%"," ","h","i","n","t"," ","s","t","y","l","e","=","\"">> \o l.style \o <<"\""," ","%","}">>
    [] l.kind = "end" -> l.indent \o <<"{","%"," ","e","n","d","h","i","n","t"," ","%","}">>
    [] l.kind = "text" -> l.indent \o <<"S","o","m","e"," ","t","e","x","t">>
    [] l.kind = "inline" -> l.indent \o <<"S","e","e"," ","{","%"," ","e","n","d","h","i","n","t"," ","%","}">>

HintParts == {ls \in SeqsUpTo(HintLineParts, MaxHintLines) : Len(ls) > 0}
HintText(ls) == JoinLines([k \in 1..Len(ls) |-> HintLine(ls[k])])

\* --- embeds: one embed, in block form or as a lone start marker
EmbedUrls == {<<"h","t","t","p","s",":","/","/","x",".","c","o","m","/","a">>, <<"h","t","t","p","s",":","/","/","x",".","c","o","m","/","?","a","=","1","&","b","=","2">>}
EmbedInners == {<<>>, <<"C","a","p","t","i","o","n"," ","t","e","x","t">>, <<"L","i","n","e"," ","o","n","e","\n","L","i","n","e"," ","t","w","o">>}
EmbedParts ==
  [form : {"block"}, indent : Indents, hasUrl : BOOLEAN, url : EmbedUrls, q : Quotes,
   captionAttr : {<<>>, <<"C","a","p">>}, inner : EmbedInners, layout : {"oneline", "lines"}]
    \cup [form : {"single"}, indent : Indents, hasUrl : BOOLEAN, url : EmbedUrls,
          q : Quotes, captionAttr : {<<>>, <<"C","a","p">>}, inner : {<<>>}, layout : {"oneline"}]

EmbedStart(e) ==
  e.indent \o <<"{","%"," ","e","m","b","e","d">>
    \o (IF e.hasUrl THEN <<" ","u","r","l","=">> \o <<e.q>> \o e.url \o <<e.q>> ELSE <<>>)
    \o (IF e.captionAttr # <<>> THEN <<" ","c","a","p","t","i","o","n","=","\"">> \o e.captionAttr \o <<"\"">> ELSE <<>>)
    \o <<" ","%","}">>

EmbedText(e) ==
  IF e.form = "single" THEN EmbedStart(e)
  ELSE IF e.layout = "oneline" THEN EmbedStart(e) \o e.inner \o <<"{","%"," ","e","n","d","e","m","b","e","d"," ","%","}">>
  ELSE EmbedStart(e) \o NL \o e.inner \o NL \o e.indent \o <<"{","%"," ","e","n","d","e","m","b","e","d"," ","%","}">>

\* --- arcade: one iframe tag on a line, possibly followed by another line
ArcadeUrls == {<<"h","t","t","p","s",":","/","/","a","p","p",".","a","r","c","a","d","e",".","s","o","f","t","w","a","r","e","/","s","h","a","r","e","/","a","b","c">>, <<"h","t","t","p",":","/","/","a","p","p",".","a","r","c","a","d","e",".","s","o","f","t","w","a","r","e","/","e","/","1">>,
               <<"h","t","t","p","s",":","/","/","e","x","a","m","p","l","e",".","c","o","m","/","x">>}
ArcadeParts ==
  [indent : Indents, q : Quotes, url : ArcadeUrls, pre : BOOLEAN, post : BOOLEAN,
   more : BOOLEAN]

ArcadeText(a) ==
  a.indent \o <<"<","i","f","r","a","m","e">>
    \o (IF a.pre THEN <<" ","t","i","t","l","e","=">> \o <<a.q>> \o <<"D","e","m","o">> \o <<a.q>> ELSE <<>>)
    \o <<" ","s","r","c","=">> \o <<a.q>> \o a.url \o <<a.q>>
    \o (IF a.post THEN <<" ","w","i","d","t","h","=">> \o <<a.q>> \o <<"1","0","0","%">> \o <<a.q>> ELSE <<>>)
    \o <<">","<","/","i","f","r","a","m","e",">">>
    \o (IF a.more THEN NL \o <<"N","e","x","t"," ","l","i","n","e">> ELSE <<>>)

\* --- images: one image tag, bare or inside a figure
AttrPieces == {<<" ","s","r","c","=","\"","a",".","p","n","g","\"">>, <<" ","a","l","t","=","\"","F","o","o","\"">>, <<" ","a","l","t","=","'","T","o","m"," ","&"," ","J","e","r","r","y","'">>, <<" ","A","L","T","=","\"","U","p","\"">>, <<" ","a","l","t","=","\"","\"">>,
               <<" ","a","l","t","=","U","p">>}
TagCloses == {<<">">>, <<" ","/",">">>}
ImgTagParts == [attrs : SeqsUpTo(AttrPieces, MaxAttrs), close : TagCloses]

RECURSIVE Concat(_)
Concat(ss) == IF Len(ss) = 0 THEN <<>> ELSE Head(ss) \o Concat(Tail(ss))

ImgTagText(g) == <<"<","i","m","g">> \o Concat(g.attrs) \o g.close

FigCaptions == {<<"D","e","s","c">>, <<"F","o","o"," ","B","a","r">>, <<"<","b",">","Q","&","A","<","/","b",">">>}
ImageParts ==
  [wrap : {"bare", "figure"}, tag : ImgTagParts, caption : {<<>>}]
    \cup [wrap : {"figcaption"}, tag : ImgTagParts, caption : FigCaptions]

ImageText(i) ==
  CASE i.wrap = "bare" -> ImgTagText(i.tag)
    [] i.wrap = "figure" -> <<"<","f","i","g","u","r","e",">">> \o ImgTagText(i.tag) \o <<"<","/","f","i","g","u","r","e",">">>
    [] i.wrap = "figcaption" ->
         <<"<","f","i","g","u","r","e",">">> \o ImgTagText(i.tag) \o <<"<","f","i","g","c","a","p","t","i","o","n",">">> \o i.caption
           \o <<"<","/","f","i","g","c","a","p","t","i","o","n",">","<","/","f","i","g","u","r","e",">">>

FallbackAlts == {<<>>, <<"F","o","o"," ","B","a","r">>, <<"f","o","o">>, <<"D","e","s","c">>}

Scripts == {"hints", "embeds", "arcade", "images"}

PartsOf(s) ==
  CASE s = "hints" -> HintParts
    [] s = "embeds" -> EmbedParts
    [] s = "arcade" -> ArcadeParts
    [] s = "images" -> ImageParts

Render(s, p) ==
  CASE s = "hints" -> HintText(p)
    [] s = "embeds" -> EmbedText(p)
    [] s = "arcade" -> ArcadeText(p)
    [] s = "images" -> ImageText(p)

\* the contents a collected file may have, per script
BatchTexts(s) ==
  CASE s = "hints" -> {<<"P","l","a","i","n"," ","t","e","x","t">>, <<"{","%"," ","h","i","n","t"," ","s","t","y","l","e","=","\"","i","n","f","o","\""," ","%","}","\n","H","i","\n","{","%"," ","e","n","d","h","i","n","t"," ","%","}">>,
                       <<"{","%"," ","h","i","n","t"," ","s","t","y","l","e","=","\"","t","i","p","\""," ","%","}","\n","O","n","l","y"," ","a"," ","s","t","a","r","t">>}
    [] s = "embeds" -> {<<"P","l","a","i","n"," ","t","e","x","t">>, <<"{","%"," ","e","m","b","e","d"," ","u","r","l","=","\"","h","t","t","p","s",":","/","/","x",".","c","o","m","/","a","\""," ","%","}">>,
                        <<"{","%"," ","e","m","b","e","d"," ","u","r","l","=","\"","h","t","t","p","s",":","/","/","x",".","c","o","m","/","a","\""," ","%","}","\n","C","a","p","\n","{","%"," ","e","n","d","e","m","b","e","d"," ","%","}">>}
    [] s = "arcade" -> {<<"P","l","a","i","n"," ","t","e","x","t">>,
                        <<"<","i","f","r","a","m","e"," ","s","r","c","=","\"","h","t","t","p","s",":","/","/","a","p","p",".","a","r","c","a","d","e",".","s","o","f","t","w","a","r","e","/","s","h","a","r","e","/","a","b","c","\"",">","<","/","i","f","r","a","m","e",">">>}
    [] s = "images" -> {<<"P","l","a","i","n"," ","t","e","x","t">>, <<"<","i","m","g"," ","s","r","c","=","\"","a",".","p","n","g","\"",">">>,
                        <<"<","f","i","g","u","r","e",">","<","i","m","g"," ","s","r","c","=","\"","a",".","p","n","g","\"",">","<","f","i","g","c","a","p","t","i","o","n",">","D","e","s","c","<","/","f","i","g","c","a","p","t","i","o","n",">","<","/","f","i","g","u","r","e",">">>}

(* ------------------------------------------------------------------ *)
(* State                                                                *)
(* ------------------------------------------------------------------ *)

VARIABLES
  script,       \* the script under consideration
  parts,        \* what the input text was built from
  input,        \* the text given to the transformer
  calls,        \* how many times the transformer has been applied
  first,        \* its result on input
  second,       \* its result on first.text
  imgTag,       \* argument of a direct call of normalizeImgTag
  fallbackAlt,  \* its second argument
  normalized,   \* the tag it returned
  files,        \* main: the collected files, in order
  disk,         \* the content of each file
  orig,         \* the content each file had when the run started
  idx,          \* main: position of the for loop in files
  filesChanged, \* main: filesChanged / totalChanged
  total1,       \* main: the first per-kind total
  total2,       \* main: the second per-kind total
  stdout,       \* lines printed with console.log
  stderr,       \* lines printed with console.error
  outcome,      \* per file: what reading and writing it did
  pc,           \* main: "loop", then "done"
  exitCode      \* the status the process ends with, -1 while it runs

tvars == <<parts, input, calls, first, second>>
ivars == <<imgTag, fallbackAlt, normalized>>
bvars == <<files, disk, orig, idx, filesChanged, total1, total2, stdout, stderr,
           outcome, pc, exitCode>>
vars == <<script, parts, input, calls, first, second, imgTag, fallbackAlt, normalized,
          files, disk, orig, idx, filesChanged, total1, total2, stdout, stderr,
          outcome, pc, exitCode>>

NoResult == [text |-> <<>>, changed |-> FALSE, n1 |-> 0, n2 |-> 0]
NoOutcome == [read |-> "none", write |-> "none"]

TransformIdle ==
  /\ parts = <<>> /\ input = <<>> /\ calls = 0
  /\ first = NoResult /\ second = NoResult

ImgTagIdle == imgTag = <<>> /\ fallbackAlt = <<>> /\ normalized = <<>>

BatchIdle ==
  /\ files = <<>> /\ disk = <<>> /\ orig = <<>> /\ idx = 0
  /\ filesChanged = 0 /\ total1 = 0 /\ total2 = 0
  /\ stdout = <<>> /\ stderr = <<>> /\ outcome = <<>>
  /\ pc = "idle" /\ exitCode = -1

(* ------------------------------------------------------------------ *)
(* A transformer applied to a text, and again to the text it returned   *)
(* ------------------------------------------------------------------ *)

Init ==
  /\ script \in Scripts
  /\ parts \in PartsOf(script)
  /\ input = Render(script, parts)
  /\ calls = 0
  /\ first = NoResult
  /\ second = NoResult
  /\ ImgTagIdle
  /\ BatchIdle

Apply(s) ==
  /\ script = s
  /\ calls = 0
  /\ first' = Transform(s, input)
  /\ calls' = 1
  /\ UNCHANGED <<script, parts, input, second, ivars, bvars>>

ApplyHints == Apply("hints")
ApplyEmbeds == Apply("embeds")
ApplyArcade == Apply("arcade")
ApplyImages == Apply("images")

\* the second pass: the transformer on its own output
Reapply ==
  /\ calls = 1
  /\ second' = Transform(script, first.text)
  /\ calls' = 2
  /\ UNCHANGED <<script, parts, input, first, ivars, bvars>>

Next == ApplyHints \/ ApplyEmbeds \/ ApplyArcade \/ ApplyImages \/ Reapply

Spec == Init /\ [][Next]_vars

(* ------------------------------------------------------------------ *)
(* normalizeImgTag called on a tag with a fallback alt                  *)
(* ------------------------------------------------------------------ *)

InitImgTag ==
  /\ script = "images"
  /\ imgTag \in {ImgTagText(g) : g \in ImgTagParts}
  /\ fallbackAlt \in FallbackAlts
  /\ normalized = <<>>
  /\ TransformIdle
  /\ BatchIdle

NormalizeImg ==
  /\ normalized = <<>>
  /\ imgTag # <<>>
  /\ normalized' = normalizeImgTag(imgTag, fallbackAlt)
  /\ UNCHANGED <<script, tvars, imgTag, fallbackAlt, bvars>>

NextImgTag == NormalizeImg

SpecImgTag == InitImgTag /\ [][NextImgTag]_vars

(* ------------------------------------------------------------------ *)
(* main: the batch runner, the same in the four scripts                 *)
(* ------------------------------------------------------------------ *)

FileIds == 1..NumFiles

InitBatch ==
  /\ script \in Scripts
  /\ files = [k \in FileIds |-> k]
  /\ disk \in [FileIds -> BatchTexts(script)]
  /\ orig = disk
  /\ idx = 1
  /\ filesChanged = 0 /\ total1 = 0 /\ total2 = 0
  /\ stdout = <<>> /\ stderr = <<>>
  /\ outcome = [f \in FileIds |-> NoOutcome]
  /\ pc = "loop"
  /\ exitCode = -1
  /\ TransformIdle
  /\ ImgTagIdle

InLoop == pc = "loop" /\ idx <= Len(files)

\* a read that throws with no try around it: the exception ends the process
ReadFailsUncaught ==
  /\ InLoop
  /\ stderr' = Append(stderr, [what |-> "Uncaught", file |-> files[idx]])
  /\ outcome' = [outcome EXCEPT ![files[idx]].read = "fail"]
  /\ pc' = "done"
  /\ exitCode' = 1
  /\ UNCHANGED <<script, tvars, ivars, files, disk, orig, idx, filesChanged, total1,
                 total2, stdout>>

\* one iteration in which readFileSync throws: the error is logged, `continue`
ReadFails ==
  /\ InLoop
  /\ stderr' = Append(stderr, [what |-> "Failed to read", file |-> files[idx]])
  /\ outcome' = [outcome EXCEPT ![files[idx]].read = "fail"]
  /\ idx' = idx + 1
  /\ UNCHANGED <<script, tvars, ivars, files, disk, orig, filesChanged, total1, total2,
                 stdout, pc, exitCode>>

\* one iteration in which the transformer reports changed = false
Unchanged ==
  /\ InLoop
  /\ ~Transform(script, disk[files[idx]]).changed
  /\ outcome' = [outcome EXCEPT ![files[idx]].read = "ok"]
  /\ idx' = idx + 1
  /\ UNCHANGED <<script, tvars, ivars, files, disk, orig, filesChanged, total1, total2,
                 stdout, stderr, pc, exitCode>>

\* one iteration in which the file changed and writeFileSync returns
WriteSucceeds ==
  /\ InLoop
  /\ LET file == files[idx]
         r == Transform(script, disk[file])
     IN /\ r.changed
        /\ disk' = [disk EXCEPT ![file] = r.text]
        /\ filesChanged' = filesChanged + 1
        /\ total1' = total1 + r.n1
        /\ total2' = total2 + r.n2
        /\ stdout' = Append(stdout, [what |-> "Updated", file |-> file,
                                     n1 |-> r.n1, n2 |-> r.n2])
        /\ outcome' = [outcome EXCEPT ![file] = [read |-> "ok", write |-> "ok"]]
  /\ idx' = idx + 1
  /\ UNCHANGED <<script, tvars, ivars, files, orig, stderr, pc, exitCode>>

\* a failing write with the counters incremented ahead of writeFileSync
WriteFailsCounted ==
  /\ InLoop
  /\ Transform(script, disk[files[idx]]).changed
  /\ filesChanged' = filesChanged + 1
  /\ total1' = total1 + Transform(script, disk[files[idx]]).n1
  /\ total2' = total2 + Transform(script, disk[files[idx]]).n2
  /\ stderr' = Append(stderr, [what |-> "Failed to write", file |-> files[idx]])
  /\ outcome' = [outcome EXCEPT ![files[idx]] = [read |-> "ok", write |-> "fail"]]
  /\ idx' = idx + 1
  /\ UNCHANGED <<script, tvars, ivars, files, disk, orig, stdout, pc, exitCode>>

\* one iteration in which the file changed and writeFileSync throws before it has
\* written: the error is logged, the counters and the file stay as they were
WriteFails ==
  /\ InLoop
  /\ Transform(script, disk[files[idx]]).changed
  /\ stderr' = Append(stderr, [what |-> "Failed to write", file |-> files[idx]])
  /\ outcome' = [outcome EXCEPT ![files[idx]] = [read |-> "ok", write |-> "fail"]]
  /\ idx' = idx + 1
  /\ UNCHANGED <<script, tvars, ivars, files, disk, orig, filesChanged, total1, total2,
                 stdout, pc, exitCode>>

\* after the loop: the summary line, and the process ends
Finish ==
  /\ pc = "loop"
  /\ idx > Len(files)
  /\ stdout' = Append(stdout, [what |-> "Done", file |-> 0,
                               n1 |-> total1, n2 |-> total2,
                               filesChanged |-> filesChanged])
  /\ pc' = "done"
  /\ exitCode' = 0
  /\ UNCHANGED <<script, tvars, ivars, files, disk, orig, idx, filesChanged, total1,
                 total2, stderr, outcome>>

NextBatch == ReadFails \/ Unchanged \/ WriteSucceeds \/ WriteFails \/ Finish

\* main is sequential code: it keeps running until it returns
SpecBatch == InitBatch /\ [][NextBatch]_vars /\ WF_vars(NextBatch)

(* ------------------------------------------------------------------ *)
(* What the documentation says the output looks like                    *)
(* ------------------------------------------------------------------ *)

\* the entity a character is written as inside an attribute value
EntityOf(c) ==
  CASE c = "&" -> <<"&","a","m","p",";">>
    [] c = "\"" -> <<"&","q","u","o","t",";">>
    [] c = "<" -> <<"&","l","t",";">>
    [] c = ">" -> <<"&","g","t",";">>
    [] OTHER -> <<c>>

\* a value with each of its special characters written as its entity, once
EscapedOnce(v) == Concat([k \in 1..Len(v) |-> EntityOf(v[k])])

\* the value of the first attribute that starts with `open` (the name, = and the
\* opening double quote): the characters up to the next double quote
EmittedAttr(t, open) ==
  IF FindLit(t, 1, open) = 0 THEN <<>>
  ELSE Cut(t, FindLit(t, 1, open) + Len(open),
           FindLit(t, FindLit(t, 1, open) + Len(open), <<"\"">>))

AttrSrc == <<" ","s","r","c","=","\"">>
AttrTitle == <<" ","t","i","t","l","e","=","\"">>
AttrAlt == <<" ","a","l","t","=","\"">>

\* t is the indentation followed by one iframe element and nothing else
IsOneIframe(t, indent) ==
  /\ LitAt(t, 1, indent \o <<"<","i","f","r","a","m","e"," ">>)
  /\ LitAt(t, Len(t) - 8, <<"<","/","i","f","r","a","m","e",">">>)
  /\ Cardinality({p \in 1..Len(t) : LitAt(t, p, <<"<","i","f","r","a","m","e">>)}) = 1

\* the attributes of an HTML start tag, read the way an HTML tokenizer reads them:
\* the number of attributes named alt (in any case) from position p to the end of the tag
SkipSpaceSlash(t, p) ==
  CHOOSE q \in p..(Len(t) + 1) :
    /\ \A k \in p..(q - 1) : IsSpace(t[k]) \/ t[k] = "/"
    /\ (q = Len(t) + 1 \/ ~(IsSpace(t[q]) \/ t[q] = "/"))

AttrNameEnd(t, p) ==
  CHOOSE q \in p..(Len(t) + 1) :
    /\ \A k \in p..(q - 1) : ~(IsSpace(t[k]) \/ t[k] \in {"=", ">", "/"})
    /\ (q = Len(t) + 1 \/ IsSpace(t[q]) \/ t[q] \in {"=", ">", "/"})

UnquotedEnd(t, p) ==
  CHOOSE q \in p..(Len(t) + 1) :
    /\ \A k \in p..(q - 1) : ~(IsSpace(t[k]) \/ t[k] = ">")
    /\ (q = Len(t) + 1 \/ IsSpace(t[q]) \/ t[q] = ">")

AttrValueEnd(t, v) ==
  IF At(t, v) \in Quotes
  THEN (IF FindLit(t, v + 1, <<At(t, v)>>) = 0 THEN Len(t) + 1
        ELSE FindLit(t, v + 1, <<At(t, v)>>) + 1)
  ELSE UnquotedEnd(t, v)

RECURSIVE AltCountFrom(_, _)
AltCountFrom(t, p) ==
  LET q == SkipSpaceSlash(t, p)
      ne == AttrNameEnd(t, q + 1)
      e == SkipSpace(t, ne)
      next == IF At(t, e) = "=" THEN AttrValueEnd(t, SkipSpace(t, e + 1)) ELSE ne
  IN IF q > Len(t) \/ t[q] = ">" THEN 0
     ELSE (IF LowerText(Cut(t, q, ne)) = K_alt THEN 1 ELSE 0) + AltCountFrom(t, next)

\* where the img start tags of a text begin
ImgTagStarts(t) == {p \in 1..Len(t) : LitAtI(t, p, K_img) /\ WordBoundary(t, p + 4)}

\* a line of a hint text after the replacement the documentation describes
ExpectedHintLine(l) ==
  CASE l.kind = "start" -> l.indent \o <<"<","N","o","t","e",">">>
    [] l.kind = "end" -> l.indent \o <<"<","/","N","o","t","e",">">>
    [] OTHER -> HintLine(l)

ExpectedHintText(ls) == JoinLines([k \in 1..Len(ls) |-> ExpectedHintLine(ls[k])])

HintLinesOfKind(ls, kind) == Cardinality({k \in 1..Len(ls) : ls[k].kind = kind})

\* an arcade iframe line after the unwrapping the documentation describes
ExpectedArcadeText(a) ==
  a.indent \o a.url \o (IF a.more THEN NL \o <<"N","e","x","t"," ","l","i","n","e">> ELSE <<>>)

IsArcadeUrl(u) == LitAt(u, 1, K_https) \/ LitAt(u, 1, K_http)

\* no attribute of the tag the text was built from is an alt attribute
HasNoAlt(g) == \A k \in 1..Len(g.attrs) : ~Includes(LowerText(g.attrs[k]), K_alt)

\* the sum of f over the set S
RECURSIVE SumOver(_, _)
SumOver(f, S) ==
  IF S = {} THEN 0
  ELSE f[CHOOSE x \in S : TRUE] + SumOver(f, S \ {CHOOSE x \in S : TRUE})

(* ------------------------------------------------------------------ *)
(* Claims on the transformers                                           *)
(* ------------------------------------------------------------------ *)

\* C1: every transformer is idempotent: applied to the text it returned, it
\* reports changed = false and returns that text unmodified.
C1_Idempotent ==
  calls = 2 => (~second.changed /\ second.text = first.text)

\* C2: attribute escaping happens exactly once: the first run writes each special
\* character of an embed url or of an image alt (here: the caption of a figure
\* whose image has no alt) as its entity once, and a second run of the same
\* transformer leaves the emitted src / alt value as it was.
C2_EscapedExactlyOnce ==
  /\ (script = "embeds" /\ calls >= 1 /\ first.changed)
       => EmittedAttr(first.text, AttrSrc) = EscapedOnce(parts.url)
  /\ (script = "images" /\ calls >= 1 /\ parts.wrap = "figcaption" /\ HasNoAlt(parts.tag))
       => EmittedAttr(first.text, AttrAlt) = EscapedOnce(Trim(stripHtmlTags(parts.caption)))
  /\ (script = "embeds" /\ calls = 2)
       => EmittedAttr(second.text, AttrSrc) = EmittedAttr(first.text, AttrSrc)
  /\ (script = "images" /\ calls = 2)
       => EmittedAttr(second.text, AttrAlt) = EmittedAttr(first.text, AttrAlt)

\* C5: an embed in block form with a url, no caption attribute and inline content C,
\* the three on one line included, becomes one iframe with src the escaped url and
\* title the trimmed C, with blocks = 1, singles = 0 and changed = true.
C5_BlockFormReplaced ==
  (/\ script = "embeds" /\ calls >= 1
   /\ parts.form = "block" /\ parts.hasUrl
   /\ parts.captionAttr = <<>> /\ parts.inner # <<>>)
    => /\ first.changed /\ first.n1 = 1 /\ first.n2 = 0
       /\ IsOneIframe(first.text, parts.indent)
       /\ EmittedAttr(first.text, AttrSrc) = EscapedOnce(parts.url)
       /\ EmittedAttr(first.text, AttrTitle) = EscapedOnce(Trim(parts.inner))

\* C6: every line-anchored hint start marker, whatever its style value, becomes
\* <Note> with its indentation and counts in startCount; every line-anchored end
\* marker becomes </Note> and counts in endCount; changed is true exactly when
\* startCount + endCount > 0.
C6_HintMarkersReplaced ==
  (script = "hints" /\ calls >= 1)
    => /\ first.text = ExpectedHintText(parts)
       /\ first.n1 = HintLinesOfKind(parts, "start")
       /\ first.n2 = HintLinesOfKind(parts, "end")
       /\ first.changed <=> (first.n1 + first.n2 > 0)

\* C8: an arcade iframe whose src is written with double or with single quotes is
\* replaced by its indentation followed by exactly the url, and counts in replaced.
C8_ArcadeBareUrl ==
  (script = "arcade" /\ calls >= 1 /\ IsArcadeUrl(parts.url))
    => /\ first.text = ExpectedArcadeText(parts)
       /\ first.n1 = 1
       /\ first.changed

\* C9: the text substituted for an embed that has a url is the start marker's
\* indentation followed by one iframe tag that contains no line break.
C9_SingleOutputLine ==
  (script = "embeds" /\ calls >= 1 /\ parts.hasUrl /\ first.changed)
    => /\ IsOneIframe(first.text, parts.indent)
       /\ ~Includes(first.text, NL)

\* C10: after image normalization every img tag of the returned text carries
\* exactly one alt attribute.
C10_ExactlyOneAlt ==
  (script = "images" /\ calls >= 1)
    => \A p \in ImgTagStarts(first.text) : AltCountFrom(first.text, p + 4) = 1

(* ------------------------------------------------------------------ *)
(* Claims on normalizeImgTag                                            *)
(* ------------------------------------------------------------------ *)

TagWithAltFoo == <<"<","i","m","g"," ","s","r","c","=","\"","a",".","p","n","g","\""," ","a","l","t","=","\"","F","o","o","\"",">">>
FooBar == <<"F","o","o"," ","B","a","r">>

\* C7: normalizing <img src="a.png" alt="Foo"> with fallback "Foo Bar" gives a tag
\* with a single alt attribute whose value is "Foo Foo Bar": the fallback is
\* appended to the existing alt, which does not contain it.
C7_FallbackAppended ==
  (imgTag = TagWithAltFoo /\ fallbackAlt = FooBar /\ normalized # <<>>)
    => /\ normalized = <<"<","i","m","g"," ","s","r","c","=","\"","a",".","p","n","g","\""," ","a","l","t","=","\"","F","o","o"," ","F","o","o"," ","B","a","r","\""," ","/",">">>
       /\ AltCountFrom(normalized, 5) = 1

\* C7 as stated: the merged alt is exactly "Foo Bar"
C7_FallbackNotDuplicated ==
  (imgTag = TagWithAltFoo /\ fallbackAlt = FooBar /\ normalized # <<>>)
    => /\ EmittedAttr(normalized, AttrAlt) = FooBar
       /\ AltCountFrom(normalized, 5) = 1

\* the tag of C7 has been normalized with the fallback of C7
C7_Normalized ==
  imgTag = TagWithAltFoo /\ fallbackAlt = FooBar /\ normalized # <<>>

(* ------------------------------------------------------------------ *)
(* Claims on the batch runner                                           *)
(* ------------------------------------------------------------------ *)

Written == {f \in FileIds : outcome[f].write = "ok"}
UpdatedLines(f) ==
  {k \in 1..Len(stdout) : stdout[k].what = "Updated" /\ stdout[k].file = f}
LoggedErrors(what, f) ==
  {k \in 1..Len(stderr) : stderr[k].what = what /\ stderr[k].file = f}

C3_Recovery ==
  /\ \A f \in FileIds :
       outcome[f].read = "fail"
         => /\ outcome[f].write = "none"
            /\ disk[f] = orig[f]
            /\ UpdatedLines(f) = {}
            /\ LoggedErrors("Failed to read", f) # {}
  /\ \A f \in FileIds :
       outcome[f].write = "fail"
         => /\ disk[f] = orig[f]
            /\ UpdatedLines(f) = {}
            /\ LoggedErrors("Failed to write", f) # {}
  /\ filesChanged = Cardinality(Written)
  /\ \A k \in 1..Len(files) : k < idx => outcome[files[k]].read # "none"
  /\ pc = "done"
       => /\ \A f \in FileIds : outcome[f].read # "none"
          /\ exitCode = 0
          /\ Len(stdout) > 0
          /\ stdout[Len(stdout)].what = "Done"

C4_WriteBackAccounting ==
  /\ \A f \in FileIds :
       (outcome[f].write # "none")
         <=> (outcome[f].read = "ok" /\ Transform(script, orig[f]).changed)
  /\ \A f \in FileIds :
       disk[f] = IF f \in Written THEN Transform(script, orig[f]).text ELSE orig[f]
  /\ filesChanged = Cardinality(Written)
  /\ total1 = SumOver([f \in FileIds |-> Transform(script, orig[f]).n1], Written)
  /\ total2 = SumOver([f \in FileIds |-> Transform(script, orig[f]).n2], Written)
  /\ \A f \in FileIds : Cardinality(UpdatedLines(f)) = IF f \in Written THEN 1 ELSE 0
  /\ \A k \in 1..Len(stdout) :
       stdout[k].what = "Updated"
         => /\ stdout[k].n1 = Transform(script, orig[stdout[k].file]).n1
            /\ stdout[k].n2 = Transform(script, orig[stdout[k].file]).n2
  /\ pc = "done"
       => /\ stdout[Len(stdout)].filesChanged = Cardinality(Written)
          /\ stdout[Len(stdout)].n1 = total1
          /\ stdout[Len(stdout)].n2 = total2

\* a finished run with a file written, a file whose write failed, and counts above 0
C4_WrittenAndFailed ==
  /\ pc = "done"
  /\ outcome[1].write = "ok"
  /\ outcome[2].write = "fail"
  /\ total1 > 0

====
